---------------------------- MODULE Spec2Model ----------------------------
(***************************************************************************)
(* A model of ssm-loader (workpathco/ssm-loader): the paginated fetch of   *)
(* parameters from the SSM parameter store, the first-write-wins merge     *)
(* into the namespace seeded from the OS environment, the %%NAME%%         *)
(* interpolation pass, and main's dispatch to the child process.           *)
(*                                                                         *)
(* The repository holds three revisions of the program:                    *)
(*   variant 1: src/ssm-loader.go lines 1-216   (options -h/--help/-O)     *)
(*   variant 2: src/ssm-loader.go lines 218-405 (usage error on no args)   *)
(*   variant 3: src/unnamed/part_000            (no checks around exec)    *)
(* getParameters, getOSEnv, AddParams, ReplaceInterpolations and           *)
(* StringArray are textually the same in the three; main differs.          *)
(*                                                                         *)
(* A Go string is a sequence of one-character strings, so that             *)
(* strings.Split, strings.SplitN, strings.Trim and the regular expression  *)
(* are computed character by character.                                    *)
(***************************************************************************)
EXTENDS Integers, Sequences, FiniteSets, TLC

VARIABLES
    variant,        \* which revision of main runs (1, 2, 3)
    environ,        \* os.Environ(): sequence of "NAME=VALUE" strings
    args,           \* os.Args[1:]
    store,          \* the remote store: scope -> sequence of pages
    pc,             \* main's position
    appName,        \* main: appName
    appEnv,         \* main: appEnv
    paramMap,       \* main: paramMap (the namespace)
    sharedParams,   \* main: sharedParams
    appParams,      \* main: appParams
    allParams,      \* main: allParams
    scope,          \* which getParameters call is running
    NextToken,      \* getParametersInput.NextToken of the current frame
    FetchedParams,  \* getParametersInput.FetchedParams of the current frame
    itr,            \* getParameters' itr of the current frame
    retParams,      \* what the last getParameters call returned
    retErr,         \* the error the last getParameters call returned
    events,         \* what the process did to the outside, in order
    child,          \* the child process: state, argv, env, exit code
    exitStatus,     \* the exit status of this process once it has exited
    diag            \* the diagnostic the process ended with

vars == << variant, environ, args, store, pc, appName, appEnv, paramMap,
           sharedParams, appParams, allParams, scope, NextToken,
           FetchedParams, itr, retParams, retErr, events, child,
           exitStatus, diag >>

-----------------------------------------------------------------------------
(* Bounds of the model *)

\* the most pages the store serves for the shared scope
MaxPages == 3
\* the most parameters in a scope's batch of the merge runs
MaxBatchLen == 2
\* the most pieces a value of the interpolation runs is built from
MaxPieces == 4
\* the child's exit codes are 0..MaxChildCode
MaxChildCode == 2

-----------------------------------------------------------------------------
(* Go values *)

\* a nil pointer / nil slice / nil error
Nil == << >>

\* time.Sleep(100 * time.Millisecond), in milliseconds
PacingDelayMs == 100

\* ssm.GetParametersByPathInput.MaxResults
MaxResults == 10

\* the status os.Exit gets from log.Fatalln
FatalStatus == 1

\* the status of a Go program that ends in a runtime panic
PanicStatus == 2

-----------------------------------------------------------------------------
(* strings *)

\* strings.Index of a one-character separator: 0 when absent
Index(s, c) ==
    IF \E i \in 1..Len(s) : s[i] = c
    THEN CHOOSE i \in 1..Len(s) : s[i] = c /\ \A j \in 1..(i-1) : s[j] # c
    ELSE 0

RECURSIVE Split(_, _)
\* strings.Split(s, sep) for a one-character sep
Split(s, sep) ==
    LET i == Index(s, sep)
    IN  IF i = 0 THEN << s >>
        ELSE << SubSeq(s, 1, i-1) >> \o Split(SubSeq(s, i+1, Len(s)), sep)

RECURSIVE SplitN(_, _, _)
\* strings.SplitN(s, sep, n) for a one-character sep and n > 0
SplitN(s, sep, n) ==
    LET i == Index(s, sep)
    IN  IF n = 1 \/ i = 0 THEN << s >>
        ELSE << SubSeq(s, 1, i-1) >> \o SplitN(SubSeq(s, i+1, Len(s)), sep, n-1)

\* strings.Trim(s, cutset) for a one-character cutset
Trim(s, c) ==
    LET keep == { i \in 1..Len(s) : s[i] # c }
    IN  IF keep = {} THEN << >>
        ELSE LET lo == CHOOSE i \in keep : \A j \in keep : i <= j
                 hi == CHOOSE i \in keep : \A j \in keep : j <= i
             IN  SubSeq(s, lo, hi)

\* fmt.Sprintf("/%s/", a)
SharedPath(e) == << "/" >> \o e \o << "/" >>

\* fmt.Sprintf("/%s/%s/", a, b)
AppPath(e, a) == << "/" >> \o e \o << "/" >> \o a \o << "/" >>


-----------------------------------------------------------------------------
(* the namespace: paramMap, a Go map[string]string, is a function *)

\* m[k] = v
Put(m, k, v) == [ x \in (DOMAIN m) \cup {k} |-> IF x = k THEN v ELSE m[x] ]

\* make(paramMap)
EmptyMap == [ x \in {} |-> << >> ]

RECURSIVE getOSEnvFrom(_, _)
\* the loop of getOSEnv over the entries not yet read
getOSEnvFrom(m, es) ==
    IF es = << >> THEN m
    ELSE LET pair == SplitN(Head(es), "=", 2)
         IN  getOSEnvFrom(Put(m, pair[1], pair[2]), Tail(es))

\* getOSEnv(), reading os.Environ() = es
getOSEnv(es) == getOSEnvFrom(EmptyMap, es)

\* os.Getenv(key) in a process whose environment is es: "" when unset
Getenv(es, key) ==
    LET m == getOSEnv(es)
    IN  IF key \in DOMAIN m THEN m[key] ELSE << >>

\* the namespace key AddParams derives from a parameter's Name
BareName(name) ==
    LET ss == Split(name, "/")
    IN  ss[Len(ss)]

\* AddParam without the exists check: the later write wins
AddParamOverwrite(m, param) == Put(m, BareName(param.Name), param.Value)

\* one iteration of AddParams' loop
AddParam(m, param) ==
    LET name == BareName(param.Name)
    IN  IF name \notin DOMAIN m THEN Put(m, name, param.Value) ELSE m

RECURSIVE AddParamsBackwards(_, _)
\* AddParams ranging over the batch from its end
AddParamsBackwards(m, params) ==
    IF params = << >> THEN m
    ELSE AddParamsBackwards(AddParam(m, params[Len(params)]),
                            SubSeq(params, 1, Len(params) - 1))

RECURSIVE AddParams(_, _)
\* paramMap.AddParams(params)
AddParams(m, params) ==
    IF params = << >> THEN m
    ELSE AddParams(AddParam(m, Head(params)), Tail(params))

-----------------------------------------------------------------------------
(* interpolation *)

\* whether paramInterpolation, "%%(.*)%%", matches s[i..j]: "." is any
\* character but a newline
Matches(s, i, j) ==
    /\ 1 <= i /\ i + 3 <= j /\ j <= Len(s)
    /\ s[i] = "%" /\ s[i+1] = "%"
    /\ s[j-1] = "%" /\ s[j] = "%"
    /\ \A k \in (i+2)..(j-2) : s[k] # "\n"

\* where s has "%%"
Delims(s) == { i \in 1..(Len(s) - 1) : s[i] = "%" /\ s[i+1] = "%" }

\* the leftmost match of paramInterpolation in s at or after from, with
\* the greedy ".*" taking the longest: << start, end >>, or Nil
FindMatch(s, from) ==
    LET ds == Delims(s)
        starts == { i \in ds : from <= i /\ \E j \in ds : Matches(s, i, j + 1) }
    IN  IF starts = {} THEN Nil
        ELSE LET i == CHOOSE x \in starts : \A y \in starts : x <= y
                 ends == { j \in ds : Matches(s, i, j + 1) }
                 j == CHOOSE x \in ends : \A y \in ends : y <= x
             IN  << i, j + 1 >>

\* the func literal ReplaceInterpolations hands to ReplaceAllStringFunc
Replacement(m, s) ==
    LET varName == Trim(s, "%")
    IN  IF varName \in DOMAIN m THEN m[varName] ELSE << >>

RECURSIVE ReplaceAllStringFunc(_, _, _)
\* paramInterpolation.ReplaceAllStringFunc(value, ...) on value from
\* position from on, looking names up in m
ReplaceAllStringFunc(value, from, m) ==
    LET mt == FindMatch(value, from)
    IN  IF mt = Nil THEN SubSeq(value, from, Len(value))
        ELSE SubSeq(value, from, mt[1] - 1)
             \o Replacement(m, SubSeq(value, mt[1], mt[2]))
             \o ReplaceAllStringFunc(value, mt[2] + 1, m)

RECURSIVE ReplaceInterpolations(_, _)
\* paramMap.ReplaceInterpolations(), the range loop visiting the keys in
\* the order given: each key's value is rewritten against the map as it
\* is when the key is visited
ReplaceInterpolations(m, order) ==
    IF order = << >> THEN m
    ELSE LET key == Head(order)
         IN  ReplaceInterpolations(
                 Put(m, key, ReplaceAllStringFunc(m[key], 1, m)), Tail(order))

RECURSIVE Orders(_)
\* the orders in which a Go range loop may visit the keys S of a map
Orders(S) ==
    IF S = {} THEN { << >> }
    ELSE UNION { { << x >> \o p : p \in Orders(S \ {x}) } : x \in S }

\* paramMap.StringArray(): the "k=v" strings, in no specified order
StringArray(m) == { k \o << "=" >> \o m[k] : k \in DOMAIN m }

\* contains(a, x)
contains(a, x) == \E i \in 1..Len(a) : a[i] = x

-----------------------------------------------------------------------------
(* names and values the program and the model's inputs use *)

APP_NAME == << "A", "P", "P", "_", "N", "A", "M", "E" >>
APP_ENV == << "A", "P", "P", "_", "E", "N", "V" >>
WORKPATH_ENV == << "W", "O", "R", "K", "P", "A", "T", "H", "_", "E", "N", "V" >>

OptH == << "-", "h" >>
OptHelp == << "-", "-", "h", "e", "l", "p" >>
OptO == << "-", "O" >>

\* a nil error
NoErr == "nil"

\* the error of a failed GetParametersByPath call
StoreErr == "store error"

\* one "NAME=VALUE" string of os.Environ()
Entry(k, v) == k \o << "=" >> \o v

\* an *ssm.Parameter
Param(name, value) == [ Name |-> name, Value |-> value ]

\* the sequences over S of length lo..hi
SeqsOf(S, lo, hi) == UNION { [ 1..n -> S ] : n \in lo..hi }

RECURSIVE Concat(_)
\* the concatenation of a sequence of sequences
Concat(ss) == IF ss = << >> THEN << >> ELSE Head(ss) \o Concat(Tail(ss))

-----------------------------------------------------------------------------
(* the remote store: GetParametersByPath *)

\* the page the store serves for a cursor: the first without one
PageIndex(token) == IF token = Nil THEN 1 ELSE token[1]

\* the store's answer to a request for a scope's pages with a cursor:
\* that page's parameters, and a cursor unless the page is the last
Response(pages, token) ==
    LET i == PageIndex(token)
    IN  [ Parameters |-> pages[i],
          NextToken |-> IF i < Len(pages) THEN << i + 1 >> ELSE Nil ]

-----------------------------------------------------------------------------
(* getParameters *)

\* the path main asks for in a scope
PathOf(sc) == IF sc = "shared" THEN SharedPath(appEnv) ELSE AppPath(appEnv, appName)

\* main calls getParameters(&getParametersInput{Client, Path}, 0)
CallGetParameters(sc) ==
    /\ scope' = sc
    /\ NextToken' = Nil
    /\ FetchedParams' = Nil
    /\ itr' = 0
    /\ pc' = "getParameters"

\* a frame's guard: nothing left to fetch
FetchDone == itr # 0 /\ NextToken = Nil

\* Accumulate that keeps the last page only
AccumulateLast(fetched, parameters) == parameters

\* the slice a frame hands to the next: append(FetchedParams, Parameters...)
Accumulate(fetched, parameters) == fetched \o parameters

\* the cursor a frame hands to the next: result.NextToken
Forward(result) == result.NextToken

\* getParameters returns what it has fetched; every frame below returns it
GetParametersReturn ==
    /\ pc = "getParameters"
    /\ FetchDone
    /\ retParams' = FetchedParams
    /\ retErr' = NoErr
    /\ pc' = "returned"
    /\ UNCHANGED << variant, environ, args, store, appName, appEnv, paramMap,
                    sharedParams, appParams, allParams, scope, NextToken,
                    FetchedParams, itr, events, child, exitStatus, diag >>

\* time.Sleep before the request
GetParametersSleep ==
    /\ pc = "getParameters"
    /\ ~FetchDone
    /\ events' = Append(events, << "sleep", PacingDelayMs >>)
    /\ pc' = "request"
    /\ UNCHANGED << variant, environ, args, store, appName, appEnv, paramMap,
                    sharedParams, appParams, allParams, scope, NextToken,
                    FetchedParams, itr, retParams, retErr, child, exitStatus,
                    diag >>

\* the request succeeds: recurse with the cursor and the parameters so far
GetParametersByPathOk ==
    /\ pc = "request"
    /\ events' = Append(events, << "request", PathOf(scope), NextToken, MaxResults >>)
    /\ LET result == Response(store[scope], NextToken)
       IN  /\ NextToken' = Forward(result)
           /\ FetchedParams' = Accumulate(FetchedParams, result.Parameters)
    /\ itr' = itr + 1
    /\ pc' = "getParameters"
    /\ UNCHANGED << variant, environ, args, store, appName, appEnv, paramMap,
                    sharedParams, appParams, allParams, scope, retParams,
                    retErr, child, exitStatus, diag >>

\* what getParameters returns when the request fails
ErrReturn(fetched) == Nil

\* the request fails: return nil, err; every frame below returns it
GetParametersByPathErr ==
    /\ pc = "request"
    /\ events' = Append(events, << "request", PathOf(scope), NextToken, MaxResults >>)
    /\ retParams' = ErrReturn(FetchedParams)
    /\ retErr' = StoreErr
    /\ pc' = "returned"
    /\ UNCHANGED << variant, environ, args, store, appName, appEnv, paramMap,
                    sharedParams, appParams, allParams, scope, NextToken,
                    FetchedParams, itr, child, exitStatus, diag >>

-----------------------------------------------------------------------------
(* main *)

\* os.Exit(status) after the diagnostic msg
Exit(status, msg) ==
    /\ pc' = "exited"
    /\ exitStatus' = status
    /\ diag' = msg

\* log.Fatalln(msg, ...) in variants 1 and 2, fmt.Println(msg, ...) and
\* os.Exit(1) in variant 3
Fatal(msg) == Exit(FatalStatus, msg)

\* main up to the shared scope: read APP_NAME and APP_ENV (WORKPATH_ENV when
\* that is empty), seed the namespace, fetch the shared scope if an
\* environment is named
MainStart ==
    /\ pc = "start"
    /\ appName' = Getenv(environ, APP_NAME)
    /\ appEnv' = IF Getenv(environ, APP_ENV) = << >>
                 THEN Getenv(environ, WORKPATH_ENV)
                 ELSE Getenv(environ, APP_ENV)
    /\ paramMap' = getOSEnv(environ)
    /\ allParams' = Nil
    /\ IF appEnv' # << >>
       THEN CallGetParameters("shared")
       ELSE /\ pc' = "appScope"
            /\ UNCHANGED << scope, NextToken, FetchedParams, itr >>
    /\ UNCHANGED << variant, environ, args, store, sharedParams, appParams,
                    retParams, retErr, events, child, exitStatus, diag >>

\* MainSharedReturned with the error check left out: main carries on
MainSharedReturnedUnchecked ==
    /\ pc = "returned"
    /\ scope = "shared"
    /\ sharedParams' = retParams
    /\ allParams' = retParams
    /\ pc' = "appScope"
    /\ UNCHANGED << variant, environ, args, store, appName, appEnv, paramMap,
                    appParams, scope, NextToken, FetchedParams, itr,
                    retParams, retErr, events, child, exitStatus, diag >>

\* the shared scope's getParameters has returned
MainSharedReturned ==
    /\ pc = "returned"
    /\ scope = "shared"
    /\ IF retErr # NoErr
       THEN /\ Fatal("Error fetching shared params")
            /\ UNCHANGED << sharedParams, allParams >>
       ELSE /\ sharedParams' = retParams
            /\ allParams' = retParams
            /\ pc' = "appScope"
            /\ UNCHANGED << exitStatus, diag >>
    /\ UNCHANGED << variant, environ, args, store, appName, appEnv, paramMap,
                    appParams, scope, NextToken, FetchedParams, itr,
                    retParams, retErr, events, child >>

\* fetch the app scope if an application is named
MainAppScope ==
    /\ pc = "appScope"
    /\ IF appName # << >>
       THEN CallGetParameters("app")
       ELSE /\ pc' = "merge"
            /\ UNCHANGED << scope, NextToken, FetchedParams, itr >>
    /\ UNCHANGED << variant, environ, args, store, appName, appEnv, paramMap,
                    sharedParams, appParams, allParams, retParams, retErr,
                    events, child, exitStatus, diag >>

\* MainAppReturned that puts the app scope's batch before the shared one
MainAppReturnedAppFirst ==
    /\ pc = "returned"
    /\ scope = "app"
    /\ IF retErr # NoErr
       THEN /\ Fatal("Error fetching app params")
            /\ UNCHANGED << appParams, allParams >>
       ELSE /\ appParams' = retParams
            /\ allParams' = retParams \o allParams
            /\ pc' = "merge"
            /\ UNCHANGED << exitStatus, diag >>
    /\ UNCHANGED << variant, environ, args, store, appName, appEnv, paramMap,
                    sharedParams, scope, NextToken, FetchedParams, itr,
                    retParams, retErr, events, child >>

\* the app scope's getParameters has returned
MainAppReturned ==
    /\ pc = "returned"
    /\ scope = "app"
    /\ IF retErr # NoErr
       THEN /\ Fatal("Error fetching app params")
            /\ UNCHANGED << appParams, allParams >>
       ELSE /\ appParams' = retParams
            /\ allParams' = allParams \o retParams
            /\ pc' = "merge"
            /\ UNCHANGED << exitStatus, diag >>
    /\ UNCHANGED << variant, environ, args, store, appName, appEnv, paramMap,
                    sharedParams, scope, NextToken, FetchedParams, itr,
                    retParams, retErr, events, child >>

\* paramMap.AddParams(allParams)
MainAddParams ==
    /\ pc = "merge"
    /\ paramMap' = AddParams(paramMap, allParams)
    /\ pc' = "interpolate"
    /\ UNCHANGED << variant, environ, args, store, appName, appEnv,
                    sharedParams, appParams, allParams, scope, NextToken,
                    FetchedParams, itr, retParams, retErr, events, child,
                    exitStatus, diag >>

\* paramMap.ReplaceInterpolations(): the range loop visits the keys in an
\* order Go does not specify
MainReplaceInterpolations ==
    /\ pc = "interpolate"
    /\ \E order \in Orders(DOMAIN paramMap) :
           paramMap' = ReplaceInterpolations(paramMap, order)
    /\ pc' = "dispatch"
    /\ UNCHANGED << variant, environ, args, store, appName, appEnv,
                    sharedParams, appParams, allParams, scope, NextToken,
                    FetchedParams, itr, retParams, retErr, events, child,
                    exitStatus, diag >>

\* variant 1: the arguments ask for the usage text
WantsUsage(a) == Len(a) = 0 \/ contains(a, OptH) \/ contains(a, OptHelp)

\* variant 1: the arguments ask for the environment to be printed
WantsOutput(a) == contains(a, OptO)

\* main between the interpolation and exec.Command: the options of
\* variant 1, the usage error of variant 2, the unchecked args[0] of
\* variant 3
MainDispatch ==
    /\ pc = "dispatch"
    /\ CASE variant = 1 /\ WantsUsage(args) ->
                /\ events' = Append(events, << "print", "usage" >>)
                /\ Exit(0, "usage")
         [] variant = 1 /\ ~WantsUsage(args) /\ WantsOutput(args) ->
                /\ events' = Append(events, << "print", StringArray(paramMap) >>)
                /\ Exit(0, "output")
         [] variant = 2 /\ Len(args) = 0 ->
                /\ Fatal("ssm-loader requires a command to run")
                /\ UNCHANGED events
         [] variant = 3 /\ Len(args) = 0 ->
                /\ Exit(PanicStatus, "panic: index out of range")
                /\ UNCHANGED events
         [] OTHER ->
                /\ pc' = "cmdStart"
                /\ UNCHANGED << events, exitStatus, diag >>
    /\ UNCHANGED << variant, environ, args, store, appName, appEnv, paramMap,
                    sharedParams, appParams, allParams, scope, NextToken,
                    FetchedParams, itr, retParams, retErr, child >>

\* exec.Command(args[0], args[1:]...) with cmd.Env = paramMap.StringArray()
Command(a, m) ==
    [ state |-> "created", path |-> a[1], argv |-> a, env |-> StringArray(m),
      code |-> -1 ]

\* this process's exit status when cmd.Start() fails
StartFailed ==
    IF variant = 3
    THEN Exit(0, "")  \* both cmd.Start's and cmd.Wait's errors are dropped
    ELSE Fatal("Error while starting command")

\* exec.Command and cmd.Start(): the child starts, or it cannot be started
MainCmdStart ==
    /\ pc = "cmdStart"
    /\ \E started \in BOOLEAN :
           IF started
           THEN /\ child' = [ Command(args, paramMap) EXCEPT !.state = "running" ]
                /\ pc' = "cmdWait"
                /\ UNCHANGED << exitStatus, diag >>
           ELSE /\ child' = [ Command(args, paramMap) EXCEPT !.state = "failed" ]
                /\ StartFailed
    /\ UNCHANGED << variant, environ, args, store, appName, appEnv, paramMap,
                    sharedParams, appParams, allParams, scope, NextToken,
                    FetchedParams, itr, retParams, retErr, events >>

\* this process's exit status after cmd.Wait() has reported the child's
\* exit code: cmd.Wait() returns an error for every code but 0
WaitStatus(code) ==
    IF variant = 3 \/ code = 0 THEN 0 ELSE FatalStatus

\* cmd.Wait(): the child ends with some exit code
MainCmdWait ==
    /\ pc = "cmdWait"
    /\ \E code \in 0..MaxChildCode :
           /\ child' = [ child EXCEPT !.state = "exited", !.code = code ]
           /\ Exit(WaitStatus(code),
                   IF WaitStatus(code) = 0 THEN "" ELSE "Command finished with err")
    /\ UNCHANGED << variant, environ, args, store, appName, appEnv, paramMap,
                    sharedParams, appParams, allParams, scope, NextToken,
                    FetchedParams, itr, retParams, retErr, events >>

Next ==
    \/ MainStart
    \/ GetParametersReturn
    \/ GetParametersSleep
    \/ GetParametersByPathOk
    \/ GetParametersByPathErr
    \/ MainSharedReturned
    \/ MainAppScope
    \/ MainAppReturned
    \/ MainAddParams
    \/ MainReplaceInterpolations
    \/ MainDispatch
    \/ MainCmdStart
    \/ MainCmdWait

-----------------------------------------------------------------------------
(* the program's inputs *)

\* the state main starts in, with its inputs drawn from the given sets
InitWith(variants, environs, argss, stores) ==
    /\ variant \in variants
    /\ environ \in environs
    /\ args \in argss
    /\ store \in stores
    /\ pc = "start"
    /\ appName = << >>
    /\ appEnv = << >>
    /\ paramMap = EmptyMap
    /\ sharedParams = Nil
    /\ appParams = Nil
    /\ allParams = Nil
    /\ scope = "none"
    /\ NextToken = Nil
    /\ FetchedParams = Nil
    /\ itr = 0
    /\ retParams = Nil
    /\ retErr = NoErr
    /\ events = << >>
    /\ child = [ state |-> "none", path |-> << >>, argv |-> << >>, env |-> {},
                 code |-> -1 ]
    /\ exitStatus = -1
    /\ diag = ""

Variants == { 1, 2, 3 }

\* the environments that hold a sub-sequence of the given entries
SubEnvs(entries) ==
    LET RECURSIVE take(_, _)
        take(i, mask) ==
            IF i > Len(entries) THEN << >>
            ELSE (IF mask[i] THEN << entries[i] >> ELSE << >>) \o take(i + 1, mask)
    IN  { take(1, mask) : mask \in [ 1..Len(entries) -> BOOLEAN ] }

Cmd == << "c" >>

\* the store of the runs that are about main's control flow
MainStores ==
    LET sh1 == << << Param(<< "/", "e", "/", "F" >>, << "r" >>) >> >>
        sh2 == << << Param(<< "/", "e", "/", "F" >>, << "r" >>) >>,
                  << Param(<< "/", "e", "/", "G" >>, << "s" >>) >> >>
        ap1 == << << Param(<< "/", "e", "/", "a", "/", "F" >>, << "a" >>) >> >>
        ap2 == << << Param(<< "/", "e", "/", "a", "/", "F" >>, << "a" >>),
                     Param(<< "/", "e", "/", "a", "/", "G" >>, << "t" >>) >> >>
    IN  { [ shared |-> sh, app |-> ap ] : sh \in { sh1, sh2 }, ap \in { ap1, ap2 } }

MainEnvirons ==
    SubEnvs(<< Entry(APP_ENV, << "e" >>), Entry(WORKPATH_ENV, << "w" >>),
               Entry(APP_NAME, << "a" >>), Entry(<< "F" >>, << "l" >>) >>)

MainArgs ==
    { << >>, << Cmd >>, << Cmd, OptH >>, << Cmd, OptO >>, << OptH >>,
      << OptHelp >>, << OptO >>, << Cmd, << "x" >> >> }

Init == InitWith(Variants, MainEnvirons, MainArgs, MainStores)

Spec == Init /\ [][Next]_vars

-----------------------------------------------------------------------------
(* runs about the merge: the environment and the two batches vary *)

BaseEnviron == << Entry(APP_ENV, << "e" >>), Entry(APP_NAME, << "a" >>) >>

\* what the store may hold under the shared path: two parameters of the
\* same bare name among them
SharedUniverse ==
    { Param(<< "/", "e", "/", "F" >>, << "r" >>),
      Param(<< "/", "e", "/", "x", "/", "F" >>, << "s" >>),
      Param(<< "/", "e", "/", "G" >>, << "t" >>) }

\* what the store may hold under the app path: a name with no "/" among them
AppUniverse ==
    { Param(<< "/", "e", "/", "a", "/", "F" >>, << "a" >>),
      Param(<< "/", "e", "/", "a", "/", "G" >>, << "b" >>),
      Param(<< "G" >>, << "c" >>) }

MergeEnvirons ==
    { BaseEnviron \o e :
        e \in SubEnvs(<< Entry(<< "F" >>, << "l" >>), Entry(<< "G" >>, << "m" >>) >>) }

\* each scope is served as one page
MergeStores ==
    { [ shared |-> << sh >>, app |-> << ap >> ] :
        sh \in SeqsOf(SharedUniverse, 0, MaxBatchLen),
        ap \in SeqsOf(AppUniverse, 0, MaxBatchLen) }

InitMerge == InitWith(Variants, MergeEnvirons, { << Cmd >> }, MergeStores)

SpecMerge == InitMerge /\ [][Next]_vars

-----------------------------------------------------------------------------
(* runs about the paginated fetch: the pages of the store vary *)

\* the pages the store may serve: empty pages among them
PageUniverse ==
    LET p1 == Param(<< "/", "e", "/", "F" >>, << "r" >>)
        p2 == Param(<< "/", "e", "/", "G" >>, << "s" >>)
    IN  { << >>, << p1 >>, << p2 >>, << p1, p2 >> }

FetchStores ==
    LET q == Param(<< "/", "e", "/", "a", "/", "F" >>, << "a" >>)
    IN  { [ shared |-> sh, app |-> ap ] :
            sh \in SeqsOf(PageUniverse, 1, MaxPages),
            ap \in { << << q >> >>, << << >>, << q >> >> } }

InitFetch == InitWith(Variants, { BaseEnviron }, { << Cmd >> }, FetchStores)

SpecFetch == InitFetch /\ [][Next]_vars

-----------------------------------------------------------------------------
(* runs about the interpolation: the values of the environment vary *)

\* what a value is built from: tokens of names that are set and of one
\* that is not, text, a bare delimiter, a newline
Pieces ==
    { << "%", "%", "A", "%", "%" >>, << "%", "%", "B", "%", "%" >>,
      << "%", "%", "U", "%", "%" >>, << "-" >>, << "%", "%" >>, << "\n" >> }

\* the values built from at most MaxPieces pieces
PieceValues == { Concat(ps) : ps \in SeqsOf(Pieces, 0, MaxPieces) }

\* values that refer to the keys A, B, K of the runs
ReferringValues ==
    { << "x" >>, << "%", "%", "A", "%", "%" >>, << "%", "%", "B", "%", "%" >>,
      << "%", "%", "K", "%", "%" >> }

\* APP_ENV, APP_NAME, and the keys A, B, K: either A = 1, B = 2 and K a built value,
\* or the three of them values that may refer to each other
InterpEnvirons ==
    { BaseEnviron \o << Entry(<< "A" >>, << "1" >>), Entry(<< "B" >>, << "2" >>),
                        Entry(<< "K" >>, v) >> : v \in PieceValues }
    \cup
    { BaseEnviron \o << Entry(<< "A" >>, va), Entry(<< "B" >>, vb),
                        Entry(<< "K" >>, vk) >> :
        va \in ReferringValues, vb \in ReferringValues, vk \in ReferringValues }

InterpStores == { [ shared |-> << << >> >>, app |-> << << >> >> ] }

InitInterp == InitWith(Variants, InterpEnvirons, { << Cmd >> }, InterpStores)

SpecInterp == InitInterp /\ [][Next]_vars

-----------------------------------------------------------------------------
(* what the claims read off a state *)

\* the requests sent to the store so far, in order
Requests == SelectSeq(events, LAMBDA e : e[1] = "request")

\* the requests sent for a path
RequestsFor(path) == SelectSeq(events, LAMBDA e : e[1] = "request" /\ e[2] = path)

\* the options variant 1 documents
Options == { OptH, OptHelp, OptO }

-----------------------------------------------------------------------------
(* C6 *)

\* C6: a run with no command-line arguments never sends a request to the
\* store, and it ends with a non-zero exit status.
C6_MissingCommandFailsFast ==
    args = << >> =>
        /\ Requests = << >>
        /\ pc = "exited" => exitStatus # 0

-----------------------------------------------------------------------------
(* C7 *)

\* C7: once a page request has failed, getParameters has returned the error
\* with no parameters, the namespace is still the seed from the OS
\* environment, nothing was printed, no child was created, the run ends
\* there with a non-zero exit status and the diagnostic of the scope that
\* failed, and after a failure of the shared scope no request for the app
\* scope was sent.
C7_FetchFailureAborts ==
    retErr # NoErr =>
        /\ retParams = Nil
        /\ pc \in { "returned", "exited" }
        /\ paramMap = getOSEnv(environ)
        /\ child.state = "none"
        /\ \A i \in 1..Len(events) : events[i][1] # "print"
        /\ scope = "shared" => RequestsFor(AppPath(appEnv, appName)) = << >>
        /\ pc = "exited" =>
              /\ exitStatus # 0
              /\ diag = IF scope = "shared" THEN "Error fetching shared params"
                        ELSE "Error fetching app params"

\* C7 witness: the shared scope's second request failed after a page had
\* been accumulated, an application was named, and the run has ended
C7_Witness ==
    /\ pc = "exited"
    /\ retErr # NoErr
    /\ scope = "shared"
    /\ FetchedParams # << >>
    /\ appName # << >>
    /\ args # << >>

-----------------------------------------------------------------------------
(* C8 *)

\* C8: when the child has run to its end, this process's exit status is
\* the child's exit code.
C8_ChildExitPropagated ==
    (pc = "exited" /\ child.state = "exited") => exitStatus = child.code

-----------------------------------------------------------------------------
(* C9 *)

\* C9: a run that got past the fetches with a first argument that is not
\* one of the options -h, --help, -O has, when it ends, launched that first
\* argument as the command with all the arguments unchanged.
C9_FirstArgumentIsCommand ==
    (pc = "exited" /\ retErr = NoErr /\ args # << >> /\ args[1] \notin Options) =>
        /\ child.state # "none"
        /\ child.path = args[1]
        /\ child.argv = args

-----------------------------------------------------------------------------
(* C1 *)

\* the bare names of a batch
BareNames(params) == { BareName(params[i].Name) : i \in 1..Len(params) }

\* C1: the step that merges the batch allParams into the namespace keeps
\* every key the namespace had, with the value it had, and the keys after
\* it are those keys and the bare names of the batch.
C1_MergePreservesExisting ==
    [][ pc = "merge" =>
          /\ \A k \in DOMAIN paramMap :
                 k \in DOMAIN paramMap' /\ paramMap'[k] = paramMap[k]
          /\ DOMAIN paramMap' = (DOMAIN paramMap) \cup BareNames(allParams) ]_vars

\* C1 witness: a merge is done whose batch held a parameter for a key the
\* namespace already had, with another value, and a parameter for a new key
C1_Witness ==
    /\ pc = "interpolate"
    /\ \E i \in 1..Len(allParams) :
           /\ BareName(allParams[i].Name) \in DOMAIN getOSEnv(environ)
           /\ allParams[i].Value # getOSEnv(environ)[BareName(allParams[i].Name)]
    /\ \E i \in 1..Len(allParams) :
           BareName(allParams[i].Name) \notin DOMAIN getOSEnv(environ)

-----------------------------------------------------------------------------
(* C2 *)

\* the values a batch gives a bare name
ValuesIn(params, n) ==
    { params[i].Value : i \in { j \in 1..Len(params) : BareName(params[j].Name) = n } }

\* C2: after the merge every key of the OS environment has its OS value,
\* every other key the shared batch names has a value of the shared batch,
\* every other key has a value of the app batch, and there are no keys but
\* these.
C2_Precedence ==
    pc = "interpolate" =>
        LET os == getOSEnv(environ)
        IN  /\ DOMAIN paramMap =
                  (DOMAIN os) \cup BareNames(sharedParams) \cup BareNames(appParams)
            /\ \A n \in DOMAIN paramMap :
                  IF n \in DOMAIN os THEN paramMap[n] = os[n]
                  ELSE IF n \in BareNames(sharedParams)
                       THEN paramMap[n] \in ValuesIn(sharedParams, n)
                       ELSE paramMap[n] \in ValuesIn(appParams, n)

\* C2 witness: the merge is done, one name is in the OS environment and in
\* both batches, another is in both batches and not in the OS environment
C2_Witness ==
    /\ pc = "interpolate"
    /\ \E n \in DOMAIN getOSEnv(environ) :
           n \in BareNames(sharedParams) /\ n \in BareNames(appParams)
    /\ \E n \in BareNames(sharedParams) :
           /\ n \in BareNames(appParams)
           /\ n \notin DOMAIN getOSEnv(environ)
           /\ ValuesIn(sharedParams, n) \cap ValuesIn(appParams, n) = {}

-----------------------------------------------------------------------------
(* C3 *)

\* C3: after the merge, a bare name that was not in the namespace before
\* has the value of the first parameter of the batch with that bare name.
C3_FirstInBatchWins ==
    pc = "interpolate" =>
        \A i \in 1..Len(allParams) :
            LET n == BareName(allParams[i].Name)
            IN  ( /\ n \notin DOMAIN getOSEnv(environ)
                  /\ \A j \in 1..(i-1) : BareName(allParams[j].Name) # n )
                => paramMap[n] = allParams[i].Value

\* C3 witness: the merge is done on a batch of one scope that holds two
\* parameters of different names, the same bare name and different values,
\* and the bare name was not in the namespace before
C3_Witness ==
    /\ pc = "interpolate"
    /\ \E i, j \in 1..Len(sharedParams) :
           /\ i < j
           /\ sharedParams[i].Name # sharedParams[j].Name
           /\ BareName(sharedParams[i].Name) = BareName(sharedParams[j].Name)
           /\ sharedParams[i].Value # sharedParams[j].Value
           /\ BareName(sharedParams[i].Name) \notin DOMAIN getOSEnv(environ)

-----------------------------------------------------------------------------
(* C4 *)

\* the events before the current getParameters call began
CallBase == IF scope = "app" /\ appEnv # << >> THEN 2 * Len(store.shared) ELSE 0

\* C4: every request follows a pacing delay; and when getParameters has
\* returned without an error from a store of k pages, it has slept and
\* sent a request k times, the first request with no cursor and each later
\* one with the cursor of the response before, and it returns the pages'
\* parameters concatenated in order.
C4_PaginatedFetch ==
    /\ \A i \in 1..Len(events) :
           events[i][1] = "request" =>
               i > 1 /\ events[i-1] = << "sleep", PacingDelayMs >>
    /\ (pc = "returned" /\ retErr = NoErr) =>
           LET pages == store[scope]
               k == Len(pages)
               ev(i) == events[CallBase + i]
           IN  /\ Len(events) = CallBase + 2 * k
               /\ \A i \in 1..k :
                      /\ ev(2 * i - 1) = << "sleep", PacingDelayMs >>
                      /\ ev(2 * i)[1] = "request"
                      /\ ev(2 * i)[2] = PathOf(scope)
                      /\ ev(2 * i)[3] =
                             IF i = 1 THEN Nil
                             ELSE Response(pages, ev(2 * i - 2)[3]).NextToken
               /\ retParams = Concat(pages)

\* C4 witness: getParameters has returned from a store of three pages, the
\* first two of them not empty and not the same
C4_Witness ==
    /\ pc = "returned"
    /\ retErr = NoErr
    /\ scope = "shared"
    /\ Len(store.shared) = 3
    /\ store.shared[1] # << >>
    /\ store.shared[2] # << >>
    /\ store.shared[1] # store.shared[2]

-----------------------------------------------------------------------------
(* C5 *)

\* the namespace as it is after the merge, before the interpolation
Merged == AddParams(getOSEnv(environ), allParams)

\* no "%" in s
Plain(s) == \A i \in 1..Len(s) : s[i] # "%"

\* the leftmost token of s at or after from, the name being the shortest
\* run between two "%%": << start, end >>, or Nil
FindToken(s, from) ==
    LET ds == Delims(s)
        starts == { i \in ds : from <= i /\ \E j \in ds : Matches(s, i, j + 1) }
    IN  IF starts = {} THEN Nil
        ELSE LET i == CHOOSE x \in starts : \A y \in starts : x <= y
                 ends == { j \in ds : Matches(s, i, j + 1) }
                 j == CHOOSE x \in ends : \A y \in ends : x <= y
             IN  << i, j + 1 >>

RECURSIVE TokensOnly(_, _)
\* s, from position from on, is text without "%" and tokens %%name%%
\* whose names are not empty and hold no "%"
TokensOnly(s, from) ==
    LET t == FindToken(s, from)
    IN  IF t = Nil THEN Plain(SubSeq(s, from, Len(s)))
        ELSE /\ Plain(SubSeq(s, from, t[1] - 1))
             /\ t[2] - t[1] > 3
             /\ Plain(SubSeq(s, t[1] + 2, t[2] - 2))
             /\ TokensOnly(s, t[2] + 1)

RECURSIVE EachTokenReplaced(_, _, _)
\* s, from position from on, with each token replaced by the value m has
\* for the token's name, "" when m has none
EachTokenReplaced(s, from, m) ==
    LET t == FindToken(s, from)
    IN  IF t = Nil THEN SubSeq(s, from, Len(s))
        ELSE LET name == SubSeq(s, t[1] + 2, t[2] - 2)
             IN  SubSeq(s, from, t[1] - 1)
                 \o (IF name \in DOMAIN m THEN m[name] ELSE << >>)
                 \o EachTokenReplaced(s, t[2] + 1, m)

\* C5: after the interpolation, a key whose value was text and tokens,
\* in a namespace whose other values held no "%", has that value with
\* each token replaced by the value of the token's own name.
C5_EachTokenResolved ==
    pc = "dispatch" =>
        \A k \in DOMAIN Merged :
            ( /\ TokensOnly(Merged[k], 1)
              /\ \A o \in (DOMAIN Merged) \ {k} : Plain(Merged[o]) )
            => paramMap[k] = EachTokenReplaced(Merged[k], 1, Merged)

-----------------------------------------------------------------------------
(* C10 *)

\* C10: after the interpolation every key has the value it had after the
\* merge with the tokens replaced by what the names they refer to had after
\* the merge, whatever the order the keys were visited in.
C10_LookupsReadSnapshot ==
    pc = "dispatch" =>
        paramMap = [ k \in DOMAIN Merged |->
                       ReplaceAllStringFunc(Merged[k], 1, Merged) ]

=============================================================================
